---- MODULE Spec2Model ----
\* github-trending-ja: the two pipelines that fetch the trending feed, attach a
\* summary to every repository and publish the result.
\*   worker : src/server/index.ts   (Cloudflare worker: scheduled + /trending + /feed)
\*   batch  : src/package.json      (the Go program: run, writeJSON, writeRSS, Discord)
\* A text (string) is a sequence of one-character strings, so that split, trim,
\* concatenation and truncation are computed, not assumed.
EXTENDS Integers, Sequences, FiniteSets, TLC

\* ---------------------------------------------------------------- bounds
\* longest trending feed the environment returns
MaxItems == 2
\* last value of the wall clock: no run starts once the clock has reached it
MaxTime == 2
\* the number of feed items of the second of two overlapping invocations
MaxSecondItems == 1

\* ---------------------------------------------------------------- texts
\* "要約失敗" (summarization failed), one element per character
YoyakuShippai == <<"yo", "yaku", "shitsu", "pai">>
\* "説明なし" (no description)
SetsumeiNashi == <<"setsu", "mei", "na", "shi">>
\* "不明" (unknown language)
Fumei == <<"fu", "mei">>

\* null / undefined / nil of an optional text
Null == [isNull |-> TRUE, text |-> <<>>]
Some(t) == [isNull |-> FALSE, text |-> t]

\* index of the first occurrence of character c in s, 0 when there is none
IndexOf(s, c) ==
  IF \E i \in 1..Len(s) : s[i] = c
  THEN CHOOSE i \in 1..Len(s) : s[i] = c /\ \A j \in 1..(i - 1) : s[j] # c
  ELSE 0

\* String.prototype.split(sep): every part
RECURSIVE split(_, _)
split(s, sep) ==
  LET k == IndexOf(s, sep)
  IN IF k = 0 THEN <<s>>
     ELSE <<SubSeq(s, 1, k - 1)>> \o split(SubSeq(s, k + 1, Len(s)), sep)

\* strings.SplitN(s, sep, n) for n >= 1: at most n parts, the last one unsplit
RECURSIVE SplitN(_, _, _)
SplitN(s, sep, n) ==
  LET k == IndexOf(s, sep)
  IN IF n <= 1 \/ k = 0 THEN <<s>>
     ELSE <<SubSeq(s, 1, k - 1)>> \o SplitN(SubSeq(s, k + 1, Len(s)), sep, n - 1)

IsSpace(c) == c \in {" ", "\n", "\t"}

\* strings.TrimSpace
RECURSIVE TrimSpace(_)
TrimSpace(s) ==
  IF s = <<>> THEN s
  ELSE IF IsSpace(s[1]) THEN TrimSpace(Tail(s))
  ELSE IF IsSpace(s[Len(s)]) THEN TrimSpace(SubSeq(s, 1, Len(s) - 1))
  ELSE s

\* ---------------------------------------------------------------- the feed
\* TrendingRepo values the trending feed is made of: a well-formed identifier with a
\* description, an identifier without the owner/name separator, a well-formed
\* identifier with an empty description
Catalogue ==
  << [title |-> <<"a", "/", "b">>, url |-> <<"u", "1">>,
      description |-> <<"f", "o", "o">>,
      language |-> <<"G", "o">>, languageColor |-> <<"#", "0", "0", "A", "D", "D", "8">>,
      stars |-> <<"1", "0">>, forks |-> <<"1">>, addStars |-> <<"2">>,
      contributors |-> <<>>],
     [title |-> <<"b", "a", "d">>, url |-> <<"u", "2">>,
      description |-> <<"x">>,
      language |-> <<>>, languageColor |-> <<>>,
      stars |-> <<"5">>, forks |-> <<"0">>, addStars |-> <<"0">>,
      contributors |-> <<>>],
     [title |-> <<"c", "/", "d">>, url |-> <<"u", "3">>,
      description |-> <<>>,
      language |-> <<"C", "<">>, languageColor |-> <<"r", "e", "d">>,
      stars |-> <<"7">>, forks |-> <<"3">>, addStars |-> <<"1">>,
      contributors |-> <<>>] >>

\* the item lists a feed can hold: up to MaxItems distinct catalogue entries, in
\* catalogue order
Feeds ==
  LET idx == UNION {[1..n -> 1..Len(Catalogue)] : n \in 0..MaxItems}
      asc == {f \in idx : \A i, j \in DOMAIN f : i < j => f[i] < f[j]}
  IN {[i \in DOMAIN f |-> Catalogue[f[i]]] : f \in asc}

\* what one GET of the trending feed can come back with
FeedResponses ==
  {[kind |-> k, items |-> <<>>] :
     k \in {"transport_error", "bad_status", "not_json", "no_items"}}
  \cup {[kind |-> "ok", items |-> f] : f \in Feeds}

\* README bodies the documentation source can serve
ReadmeTexts == {<<>>, <<"R">>}

\* texts a summarization backend can answer with: empty, whitespace only, a summary
\* with whitespace around it
BackendTexts == {<<>>, <<" ">>, <<" ", "s", " ">>}

\* ---------------------------------------------------------------- structured output
\* JSON.stringify(data) / json.Encoder.Encode(output): the document as a sequence of
\* tokens; a prefix of it is what a partial write leaves behind
EncodeJSON(data) ==
  <<[tok |-> "{", v |-> [none |-> TRUE]]>>
  \o [i \in 1..Len(data.items) |-> [tok |-> "item", v |-> [item |-> data.items[i]]]]
  \o <<[tok |-> "generatedAt", v |-> [time |-> data.generatedAt]],
       [tok |-> "}", v |-> [none |-> TRUE]]>>

\* whether the token sequence is one whole document
IsCompleteJSON(s) ==
  /\ Len(s) >= 3
  /\ s[1].tok = "{"
  /\ s[Len(s)].tok = "}"
  /\ s[Len(s) - 1].tok = "generatedAt"
  /\ \A i \in 2..(Len(s) - 2) : s[i].tok = "item"

\* JSON.parse / json.Unmarshal of a whole document
ParseJSON(s) ==
  [items |-> [i \in 1..(Len(s) - 3) |-> s[i + 1].v.item],
   generatedAt |-> s[Len(s) - 1].v.time]

\* ---------------------------------------------------------------- state
VARIABLES
  prog,        \* which program is deployed: "worker" or "batch"
  clock,       \* the wall clock (new Date() / time.Now())
  repos,       \* the list the trending fetch of the current run returned
  feedKind,    \* what the trending feed answered to the current run ("none": no run)
  kv,          \* worker: the KV slot KV_KEY (Null-like when never put)
  wpc,         \* worker: position of the scheduled handler
  wexit,       \* worker: how the last scheduled invocation ended
  tasks,       \* worker: the per-repo async callbacks of Promise.all
  values,      \* worker: the result array of Promise.all
  overtaken,   \* worker: some callback settled before one of a smaller index
  wdata,       \* worker: the TrendingData the handler built
  resp,        \* worker: the HTTP response a handler returned and the client has
               \*         yet to receive
  published,   \* worker: the TrendingData of the most recent put that completed, and
               \*         the greatest generatedAt of all the puts that completed
  second,      \* worker: a second invocation of scheduled, overlapping the first
  bpc,         \* batch: position of run
  bexit,       \* batch: how the last run ended (the error run returned, if any)
  webhook,     \* batch: discordWebhookURL is set (an environment variable that only
               \*        sendDiscordNotification reads: drawn when it is called)
  idx,         \* batch: index i of the loop over repos
  readme,      \* batch: the text run hands to Summarize
  results,     \* batch: the results slice
  blog,        \* batch: per result, what its fetch and summarization came back with
  output,      \* batch: the Output run built
  dataJson,    \* batch: the file ./public/data.json
  feedXml,     \* batch: the file ./public/feed.xml: which run's document it holds
               \*        (by its generatedAt) and how many tokens of it
  sends,       \* batch: the webhook payloads posted so far, in order
  pauses       \* batch: the number of time.Sleep calls between sends

wvars == <<kv, published, second, wpc, wexit, tasks, values, overtaken, wdata>>
bvars == <<bpc, bexit, webhook, idx, readme, results, blog, output, dataJson,
           feedXml, sends, pauses>>
vars == <<prog, clock, repos, feedKind, resp, wvars, bvars>>

NoData == [items |-> <<>>, generatedAt |-> 0]
KvEmpty == [present |-> FALSE, value |-> <<>>]
NoPublished == [any |-> FALSE, data |-> NoData, newest |-> 0]
NoSecond == [pc |-> "idle", exit |-> "none", data |-> NoData]
NoResponse == [route |-> "", status |-> 0, body |-> [none |-> TRUE]]

\* ---------------------------------------------------------------- worker
\* fetchTrending: the items, or a thrown error
fetchTrending(r) ==
  IF r.kind = "transport_error" THEN [threw |-> TRUE, items |-> <<>>]
  ELSE IF r.kind = "bad_status" THEN [threw |-> TRUE, items |-> <<>>]
  ELSE IF r.kind = "not_json" THEN [threw |-> TRUE, items |-> <<>>]
  ELSE IF r.kind = "no_items" THEN [threw |-> TRUE, items |-> <<>>]
  ELSE [threw |-> FALSE, items |-> r.items]

\* const [owner, name] = repo.title.split("/")
Destructure(title) ==
  LET parts == split(title, "/")
  IN [owner |-> Some(parts[1]),
      name |-> IF Len(parts) >= 2 THEN Some(parts[2]) ELSE Null]

\* the callback of repos.map up to its first await: the fetch of branch "main"
StartTask(repo) ==
  [pc |-> "main", owner |-> Destructure(repo.title).owner,
   name |-> Destructure(repo.title).name,
   readme |-> Null, request |-> Null, failed |-> FALSE,
   summary |-> YoyakuShippai]

\* what one README fetch can come back with
ReadmeFetches ==
  {[kind |-> k, text |-> <<>>] : k \in {"throw", "not_ok", "text_throw"}}
  \cup {[kind |-> "ok", text |-> t] : t \in ReadmeTexts}

\* what generateContent can come back with: a throw, no text, a text
GeminiResponses ==
  {[kind |-> "throw", text |-> Null], [kind |-> "ok", text |-> Null]}
  \cup {[kind |-> "ok", text |-> Some(t)] : t \in BackendTexts}

\* whether generateContent threw or answered without a text
NoText(o) == o.kind = "throw" \/ o.text.isNull \/ o.text.text = <<>>

\* summarizeReadme: response.text || "要約失敗", "要約失敗" on a throw
summarizeReadme(o) ==
  IF o.kind = "throw" THEN YoyakuShippai
  ELSE IF o.text.isNull \/ o.text.text = <<>> THEN YoyakuShippai
  ELSE o.text.text

\* if (readme): null and "" are falsy
Truthy(t) == ~t.isNull /\ t.text # <<>>

\* the callback after fetchReadme returned rd
AfterReadme(t, rd) ==
  IF Truthy(rd)
  THEN [t EXCEPT !.pc = "summarize", !.readme = rd, !.request = rd]
  ELSE [t EXCEPT !.pc = "done", !.readme = rd, !.summary = YoyakuShippai]

\* fetchReadme, one candidate branch answering with o
fetchReadmeStep(t, o) ==
  IF o.kind = "ok" THEN AfterReadme(t, Some(o.text))
  ELSE IF t.pc = "main" THEN [t EXCEPT !.pc = "master"]
  ELSE AfterReadme(t, Null)

\* { ...repo, summary }
WithSummary(repo, summary) ==
  [title |-> repo.title, url |-> repo.url, description |-> repo.description,
   summary |-> summary, language |-> repo.language,
   languageColor |-> repo.languageColor, stars |-> repo.stars,
   forks |-> repo.forks, addStars |-> repo.addStars,
   contributors |-> repo.contributors]

\* a slot of the result array of Promise.all that no promise has filled yet
Pending == [filled |-> FALSE, value |-> WithSummary(Catalogue[1], <<>>)]
Filled(v) == [filled |-> TRUE, value |-> v]

\* a wrong Promise.all: each value goes to the first free slot, in settling order
ResolveInSettlingOrder(vals, i, v) ==
  LET k == CHOOSE k \in 1..Len(vals) :
             ~vals[k].filled /\ \A j \in 1..(k - 1) : vals[j].filled
  IN [vals EXCEPT ![k] = Filled(v)]

\* Promise.all: the value of the i-th promise goes to slot i of the result array,
\* whenever it settles
Resolve(vals, i, v) == [vals EXCEPT ![i] = Filled(v)]

\* the callback of index i went from `old` to `new`: when it returned, its promise
\* settles with { ...repo, summary }
Settle(vals, old, new, i) ==
  IF old.pc # "done" /\ new.pc = "done"
  THEN Resolve(vals, i, WithSummary(repos[i], new.summary))
  ELSE vals

\* whether callback i returning now overtakes a callback of a smaller index
Overtakes(ts, new, i) ==
  new.pc = "done" /\ \E j \in 1..(i - 1) : ts[j].pc # "done"

\* scheduled: getTrendingReposWithSummary begins, fetchTrending answers
ScheduledFetch ==
  /\ prog = "worker" /\ resp = NoResponse /\ wpc = "idle" /\ clock < MaxTime
  /\ \E r \in FeedResponses :
       /\ feedKind' = r.kind
       /\ IF fetchTrending(r).threw
          THEN /\ wexit' = "fetchTrending threw"
               /\ repos' = <<>>
               /\ wdata' = NoData
               /\ UNCHANGED <<wpc, tasks, values, overtaken>>
          ELSE /\ wpc' = "enrich"
               /\ wexit' = "running"
               /\ repos' = fetchTrending(r).items
               /\ tasks' = [i \in 1..Len(fetchTrending(r).items) |->
                              StartTask(fetchTrending(r).items[i])]
               /\ values' = [i \in 1..Len(fetchTrending(r).items) |-> Pending]
               /\ overtaken' = FALSE
               /\ wdata' = NoData
  /\ UNCHANGED <<resp, prog, second, clock, kv, published, bvars>>

\* one README candidate of one callback answers
TaskFetchReadme ==
  /\ prog = "worker" /\ resp = NoResponse /\ wpc = "enrich"
  /\ \E i \in 1..Len(tasks) :
       /\ tasks[i].pc \in {"main", "master"}
       /\ \E o \in ReadmeFetches :
            LET t == fetchReadmeStep(tasks[i], o)
            IN /\ tasks' = [tasks EXCEPT ![i] = t]
               /\ values' = Settle(values, tasks[i], t, i)
               /\ overtaken' = (overtaken \/ Overtakes(tasks, t, i))
  /\ UNCHANGED <<resp, prog, second, feedKind, clock, repos, kv, wpc, wexit, wdata, published, bvars>>

\* the summarization of one callback answers
TaskSummarize ==
  /\ prog = "worker" /\ resp = NoResponse /\ wpc = "enrich"
  /\ \E i \in 1..Len(tasks) :
       /\ tasks[i].pc = "summarize"
       /\ \E o \in GeminiResponses :
            LET t == [tasks[i] EXCEPT !.pc = "done", !.failed = NoText(o),
                                      !.summary = summarizeReadme(o)]
            IN /\ tasks' = [tasks EXCEPT ![i] = t]
               /\ values' = Settle(values, tasks[i], t, i)
               /\ overtaken' = (overtaken \/ Overtakes(tasks, t, i))
  /\ UNCHANGED <<resp, prog, second, feedKind, clock, repos, kv, wpc, wexit, wdata, published, bvars>>

\* Promise.all resolves; scheduled reads the clock and builds the TrendingData
ScheduledBuild ==
  /\ prog = "worker" /\ resp = NoResponse /\ wpc = "enrich"
  /\ \A i \in 1..Len(tasks) : tasks[i].pc = "done"
  /\ clock' = clock + 1
  /\ wdata' = [items |-> [i \in 1..Len(values) |-> values[i].value],
               generatedAt |-> clock + 1]
  /\ wpc' = "put"
  /\ UNCHANGED <<resp, prog, second, feedKind, repos, kv, wexit, tasks, values, overtaken, published, bvars>>

\* a wrong put: it writes only into an empty slot
KvPutIfAbsent(slot, data, ok) ==
  IF ok /\ ~slot.present THEN [present |-> TRUE, value |-> EncodeJSON(data)] ELSE slot

\* env.GITHUB_TRENDING_JA.put(KV_KEY, JSON.stringify(data)): one atomic put, or a throw
KvPut(slot, data, ok) ==
  IF ok THEN [present |-> TRUE, value |-> EncodeJSON(data)] ELSE slot

\* the put completed: data is what the slot holds now
Publish(pub, data) ==
  [any |-> TRUE, data |-> data,
   newest |-> IF data.generatedAt > pub.newest THEN data.generatedAt ELSE pub.newest]

ScheduledPut ==
  /\ prog = "worker" /\ resp = NoResponse /\ wpc = "put"
  /\ \E ok \in BOOLEAN :
       /\ kv' = KvPut(kv, wdata, ok)
       /\ published' = IF ok THEN Publish(published, wdata) ELSE published
       /\ wexit' = IF ok THEN "ok" ELSE "put threw"
       /\ repos' = IF ok THEN repos ELSE <<>>
       /\ wdata' = IF ok THEN wdata ELSE NoData
  /\ wpc' = "idle"
  /\ tasks' = <<>>
  /\ values' = <<>>
  /\ overtaken' = FALSE
  /\ UNCHANGED <<resp, prog, second, feedKind, clock, bvars>>

\* the runtime ends the invocation before it finished
ScheduledTerminated ==
  /\ prog = "worker" /\ resp = NoResponse /\ wpc \in {"enrich", "put"}
  /\ wpc' = "idle"
  /\ wexit' = "terminated"
  /\ repos' = <<>>
  /\ wdata' = NoData
  /\ tasks' = <<>>
  /\ values' = <<>>
  /\ overtaken' = FALSE
  /\ UNCHANGED <<resp, prog, second, feedKind, clock, kv, published, bvars>>

\* what fetchReadme as a whole can return: null, or the text of a branch
ReadmeReturns == {Null} \cup {Some(t) : t \in ReadmeTexts}

\* the summary the callback of repos.map returns when fetchReadme returned rd and
\* generateContent, if called, answered o
CallbackSummary(repo, rd, o) ==
  LET t == AfterReadme(StartTask(repo), rd)
  IN IF t.pc = "done" THEN t.summary ELSE summarizeReadme(o)

\* what getTrendingReposWithSummary can resolve with for the items of a feed
Enrichments(items) ==
  {[i \in 1..Len(items) |-> WithSummary(items[i], f[i])] :
     f \in [1..Len(items) ->
             {CallbackSummary(Catalogue[1], rd, o) :
                rd \in ReadmeReturns, o \in GeminiResponses}]}

\* the second invocation, lines 141-148: getTrendingReposWithSummary threw, or it
\* resolved (its callbacks share nothing with the first invocation) and the handler
\* reads the clock and builds its TrendingData
SecondScheduledBuild ==
  /\ prog = "worker" /\ resp = NoResponse /\ second.pc = "idle" /\ clock < MaxTime
  /\ \E r \in FeedResponses :
       IF fetchTrending(r).threw
       THEN /\ second.exit # "fetchTrending threw"
            /\ second' = [NoSecond EXCEPT !.exit = "fetchTrending threw"]
            /\ UNCHANGED clock
       ELSE /\ Len(r.items) <= MaxSecondItems
            /\ \E items \in Enrichments(r.items) :
                 second' = [pc |-> "put", exit |-> "running",
                            data |-> [items |-> items, generatedAt |-> clock + 1]]
            /\ clock' = clock + 1
  /\ UNCHANGED <<prog, feedKind, repos, resp, kv, published, wpc, wexit, tasks, values,
                 overtaken, wdata, bvars>>

\* the second invocation, lines 150-156: its put completes or throws
SecondScheduledPut ==
  /\ prog = "worker" /\ resp = NoResponse /\ second.pc = "put"
  /\ \E ok \in BOOLEAN :
       /\ kv' = KvPut(kv, second.data, ok)
       /\ published' = IF ok THEN Publish(published, second.data) ELSE published
       /\ second' = [NoSecond EXCEPT !.exit = IF ok THEN "ok" ELSE "put threw"]
  /\ UNCHANGED <<prog, feedKind, clock, repos, resp, wpc, wexit, tasks, values,
                 overtaken, wdata, bvars>>

\* c.env.GITHUB_TRENDING_JA.get(KV_KEY, "json"): null when the key was never put, the
\* parsed value otherwise; it throws when the read fails or the value is no JSON
KvGetJSON(slot, readOk) ==
  IF ~readOk THEN [threw |-> TRUE, isNull |-> TRUE, data |-> NoData]
  ELSE IF ~slot.present THEN [threw |-> FALSE, isNull |-> TRUE, data |-> NoData]
  ELSE IF ~IsCompleteJSON(slot.value)
    THEN [threw |-> TRUE, isNull |-> TRUE, data |-> NoData]
  ELSE [threw |-> FALSE, isNull |-> FALSE, data |-> ParseJSON(slot.value)]

\* the handler of GET /trending
trending(slot, readOk) ==
  LET cachedData == KvGetJSON(slot, readOk)
  IN IF cachedData.threw
     THEN [route |-> "/trending", status |-> 500,
           body |-> [error |-> "Internal server error"]]
     ELSE IF ~cachedData.isNull
       THEN [route |-> "/trending", status |-> 200, body |-> [json |-> cachedData.data]]
     ELSE [route |-> "/trending", status |-> 503,
           body |-> [error |-> "No data available. Please wait for the next update."]]

\* generateRSS: one feed item per repo, in order
generateRSS(data) ==
  [pubDate |-> data.generatedAt,
   items |-> [i \in 1..Len(data.items) |->
     [title |-> data.items[i].title \o <<" ", "-", " ">> \o data.items[i].summary,
      description |->
        data.items[i].summary \o <<"<br><br>", "gengo", ":", " ">>
        \o (IF data.items[i].language # <<>> THEN data.items[i].language ELSE Fumei)
        \o <<"<br>", "suta-suu", ":", " ">> \o data.items[i].stars
        \o <<" ", "(", "+">> \o data.items[i].addStars
        \o <<")", "<br>", "fo-ku-suu", ":", " ">> \o data.items[i].forks,
      url |-> data.items[i].url,
      guid |-> data.items[i].url \o <<"-", ToString(data.generatedAt)>>,
      date |-> data.generatedAt]]]

\* the handler of GET /feed
feed(slot, readOk) ==
  LET cachedData == KvGetJSON(slot, readOk)
  IN IF cachedData.threw
     THEN [route |-> "/feed", status |-> 500, body |-> [text |-> "Internal server error"]]
     ELSE IF cachedData.isNull
       THEN [route |-> "/feed", status |-> 503, body |-> [text |-> "No data available"]]
     ELSE [route |-> "/feed", status |-> 200, body |-> [xml |-> generateRSS(cachedData.data)]]

\* a GET /trending is answered
GetTrending ==
  /\ prog = "worker" /\ resp = NoResponse
  /\ \E readOk \in BOOLEAN : resp' = trending(kv, readOk)
  /\ UNCHANGED <<prog, feedKind, clock, repos, wvars, bvars>>

\* a GET /feed is answered
GetFeed ==
  /\ prog = "worker" /\ resp = NoResponse
  /\ \E readOk \in BOOLEAN : resp' = feed(kv, readOk)
  /\ UNCHANGED <<prog, feedKind, clock, repos, wvars, bvars>>

\* the client receives the response
ResponseSent ==
  /\ prog = "worker" /\ resp # NoResponse
  /\ resp' = NoResponse
  /\ UNCHANGED <<prog, feedKind, clock, repos, wvars, bvars>>

\* ---------------------------------------------------------------- batch program
NoFile == [exists |-> FALSE, content |-> <<>>]
NoFeed == [exists |-> FALSE, of |-> 0, written |-> 0, complete |-> FALSE]
NoReadme == [text |-> <<>>, absent |-> FALSE]

\* maxReadmeLen of Summarize
maxReadmeLen == 10000

\* fetchTrendingRepos: (apiResp.Items, nil) or (nil, err). A payload that decodes but
\* holds no "items" leaves Items nil and is no error
fetchTrendingRepos(r) ==
  IF r.kind = "transport_error" THEN [err |-> TRUE, items |-> <<>>]
  ELSE IF r.kind = "bad_status" THEN [err |-> TRUE, items |-> <<>>]
  ELSE IF r.kind = "not_json" THEN [err |-> TRUE, items |-> <<>>]
  ELSE IF r.kind = "no_items" THEN [err |-> FALSE, items |-> <<>>]
  ELSE [err |-> FALSE, items |-> r.items]

\* what GetReadme / GetContent can come back with
ReadmeResults ==
  {[kind |-> k, text |-> <<>>] : k \in {"get_error", "content_error"}}
  \cup {[kind |-> "ok", text |-> t] : t \in ReadmeTexts}

\* fetchReadme: (content, nil) or ("", err)
fetchReadme(o) ==
  IF o.kind = "ok" THEN [content |-> o.text, err |-> FALSE]
  ELSE [content |-> <<>>, err |-> TRUE]

\* run, lines 221-225: the README, or the description when fetchReadme failed
ReadmeOrDescription(repo, o) ==
  IF fetchReadme(o).err
  THEN [text |-> repo.description, absent |-> TRUE]
  ELSE [text |-> fetchReadme(o).content, absent |-> FALSE]

\* what POST /api/generate can come back with
OllamaResponses ==
  {[kind |-> k, response |-> <<>>] :
     k \in {"transport_error", "bad_status", "undecodable"}}
  \cup {[kind |-> "ok", response |-> t] : t \in BackendTexts}

\* the prompt of Summarize: the fixed instruction, then the text
Prompt(text) == <<"ika no README no naiyou wo nihongo de mijikaku youyaku seyo", "\n", "\n">> \o text

\* OllamaClient.Summarize: (summary, err), and the prompt it posted, if it posted one
Summarize(text, o) ==
  LET cut == IF Len(text) > maxReadmeLen THEN SubSeq(text, 1, maxReadmeLen) ELSE text
      req == Some(Prompt(cut))
  IN IF text = <<>> THEN [summary |-> SetsumeiNashi, err |-> FALSE, request |-> Null]
     ELSE IF o.kind # "ok" THEN [summary |-> <<>>, err |-> TRUE, request |-> req]
     ELSE IF o.response = <<>>
       THEN [summary |-> YoyakuShippai, err |-> FALSE, request |-> req]
     ELSE [summary |-> TrimSpace(o.response), err |-> FALSE, request |-> req]

\* a wrong run: the summary of a failed Summarize is kept as it is returned
SummaryAsReturned(text, o) == Summarize(text, o).summary

\* run, lines 228-232: the summary run keeps
SummaryOrFailed(text, o) ==
  IF Summarize(text, o).err THEN YoyakuShippai ELSE Summarize(text, o).summary

\* the TrendingRepoWithSummary literal of run
TrendingRepoWithSummary(repo, summary) ==
  [title |-> repo.title, url |-> repo.url, description |-> repo.description,
   summary |-> summary, language |-> repo.language,
   languageColor |-> repo.languageColor, stars |-> repo.stars,
   forks |-> repo.forks, addStars |-> repo.addStars,
   contributors |-> repo.contributors]

\* a wrong append: the new result goes first
PrependResult(rs, r) == <<r>> \o rs

\* results = append(results, ...)
AppendResult(rs, r) == Append(rs, r)

\* html.EscapeString
RECURSIVE EscapeString(_)
EscapeString(s) ==
  IF s = <<>> THEN <<>>
  ELSE (CASE s[1] = "<" -> <<"&", "l", "t", ";">>
          [] s[1] = ">" -> <<"&", "g", "t", ";">>
          [] s[1] = "&" -> <<"&", "a", "m", "p", ";">>
          [] s[1] = "'" -> <<"&", "#", "3", "9", ";">>
          [] s[1] = "\"" -> <<"&", "#", "3", "4", ";">>
          [] OTHER -> <<s[1]>>) \o EscapeString(Tail(s))

\* generatedAt.Format(layout): the clock value under the layout's name
Format(t, layout) == <<layout, ToString(t)>>

\* writeRSS, lines 418-456: the RSS value
BuildRSS(rs, t) ==
  LET pubDate == Format(t, "RFC1123Z")
      item(r) ==
        [Title |-> r.title \o <<" ", "-", " ">> \o r.summary,
         Link |-> r.url,
         Description |->
           EscapeString(r.summary) \o <<"<br><br>", "gengo", ":", " ">>
           \o EscapeString(IF r.language # <<>> THEN r.language ELSE Fumei)
           \o <<"<br>", "suta-suu", ":", " ">> \o EscapeString(r.stars)
           \o <<" ", "(", "+">> \o EscapeString(r.addStars)
           \o <<")", "<br>", "fo-ku-suu", ":", " ">> \o EscapeString(r.forks),
         GUID |-> r.url \o <<"-">> \o Format(t, "2006-01-02"),
         PubDate |-> pubDate]
  IN [Version |-> "2.0",
      Channel |-> [Title |-> "GitHub Trending", Language |-> "ja",
                   PubDate |-> pubDate,
                   Items |-> [i \in 1..Len(rs) |-> item(rs[i])]]]

\* xml.Header, then xml.Encoder.Encode(rss), as tokens
EncodeXML(rss) ==
  <<[tok |-> "xml.Header", v |-> [none |-> TRUE]],
    [tok |-> "<rss><channel>", v |-> [pubDate |-> rss.Channel.PubDate]]>>
  \o [i \in 1..Len(rss.Channel.Items) |->
        [tok |-> "<item>", v |-> [item |-> rss.Channel.Items[i]]]]
  \o <<[tok |-> "</channel></rss>", v |-> [none |-> TRUE]]>>

HexDigits ==
  <<"0", "1", "2", "3", "4", "5", "6", "7", "8", "9", "a", "b", "c", "d", "e", "f">>
UpperHexDigits == <<"A", "B", "C", "D", "E", "F">>

\* the value of a hex digit, -1 for any other character
HexValue(c) ==
  IF \E k \in 1..16 : HexDigits[k] = c THEN (CHOOSE k \in 1..16 : HexDigits[k] = c) - 1
  ELSE IF \E k \in 1..6 : UpperHexDigits[k] = c
    THEN (CHOOSE k \in 1..6 : UpperHexDigits[k] = c) + 9
  ELSE -1

\* fmt.Sscanf(color, "%x", &result): the leading hex digits, read into acc; result
\* keeps its zero value when there is none
RECURSIVE ScanHex(_, _)
ScanHex(s, acc) ==
  IF s = <<>> \/ HexValue(s[1]) < 0 THEN acc
  ELSE ScanHex(Tail(s), acc * 16 + HexValue(s[1]))

\* strings.TrimPrefix(s, "#")
TrimPrefixHash(s) == IF s # <<>> /\ s[1] = "#" THEN Tail(s) ELSE s

\* languageToColor; 7506394 is 0x7289DA
languageToColor(htmlColor) ==
  IF htmlColor = <<>> THEN 7506394
  ELSE ScanHex(TrimPrefixHash(htmlColor), 0)

\* a wrong buildDiscordMessages: two repos per message
buildDiscordMessagesInPairs(rs, t) ==
  [m \in 1..((Len(rs) + 1) \div 2) |->
     [Embeds |->
        [e \in 1..(IF 2 * m <= Len(rs) THEN 2 ELSE 1) |->
           [Title |-> rs[2 * (m - 1) + e].title,
            URL |-> rs[2 * (m - 1) + e].url,
            Description |-> rs[2 * (m - 1) + e].summary,
            Color |-> 0,
            Fields |-> <<>>]]]]

\* buildDiscordMessages with reposPerMessage = 1: one payload with one embed per repo
buildDiscordMessages(rs, t) ==
  [i \in 1..Len(rs) |->
     [Embeds |->
        <<[Title |-> rs[i].title,
           URL |-> rs[i].url,
           Description |-> rs[i].summary,
           Color |-> languageToColor(rs[i].languageColor),
           Fields |->
             <<[Name |-> "gengo",
                Value |-> IF rs[i].language = <<>> THEN Fumei ELSE rs[i].language,
                Inline |-> TRUE],
               [Name |-> "suta-",
                Value |-> rs[i].stars \o <<" ", "(", "+">> \o rs[i].addStars \o <<")">>,
                Inline |-> TRUE]>>]>>]]

\* postDiscordWebhook: whether it returns an error
postDiscordWebhook(o) == o # "ok"

\* the locals of run, as they are before the loop
Fresh ==
  /\ idx' = 1
  /\ readme' = NoReadme
  /\ results' = <<>>
  /\ blog' = <<>>
  /\ output' = NoData
  /\ sends' = <<>>
  /\ pauses' = 0

\* run returns the error msg: main logs it and the process exits
ReturnError(msg) ==
  /\ bpc' = "idle"
  /\ bexit' = msg
  /\ webhook' = FALSE
  /\ repos' = <<>>
  /\ Fresh

\* run, lines 172-197: the configuration
RunStart ==
  /\ prog = "batch" /\ bpc = "idle" /\ clock < MaxTime
  /\ \E modelSet \in BOOLEAN :
       IF modelSet
       THEN /\ bpc' = "fetch"
            /\ bexit' = "running"
            /\ webhook' = FALSE
            /\ repos' = <<>>
            /\ Fresh
       ELSE ReturnError("OLLAMA_MODEL is not set")
  /\ feedKind' = "none"
  /\ UNCHANGED <<prog, clock, resp, wvars, dataJson, feedXml>>

\* run, lines 200-205: fetchTrendingRepos answers
RunFetchTrending ==
  /\ prog = "batch" /\ bpc = "fetch"
  /\ \E r \in FeedResponses :
       /\ feedKind' = r.kind
       /\ IF fetchTrendingRepos(r).err
          THEN ReturnError("failed to fetch trending repos")
          ELSE /\ bpc' = "loop"
               /\ repos' = fetchTrendingRepos(r).items
               /\ UNCHANGED <<bexit, webhook, idx, readme, results, blog, output,
                              sends, pauses>>
  /\ UNCHANGED <<prog, clock, resp, wvars, dataJson, feedXml>>

\* len(parts) != 2 of run
InvalidTitle(title) == Len(SplitN(title, "/", 2)) # 2

\* run, lines 213-217: a title without the separator is skipped
RunSkipInvalid ==
  /\ prog = "batch" /\ bpc = "loop" /\ idx <= Len(repos)
  /\ InvalidTitle(repos[idx].title)
  /\ idx' = idx + 1
  /\ UNCHANGED <<prog, feedKind, clock, repos, resp, wvars, bpc, bexit, webhook, readme,
                 results, blog, output, dataJson, feedXml, sends, pauses>>

\* run, lines 221-225: fetchReadme answers
RunFetchReadme ==
  /\ prog = "batch" /\ bpc = "loop" /\ idx <= Len(repos)
  /\ ~InvalidTitle(repos[idx].title)
  /\ \E o \in ReadmeResults : readme' = ReadmeOrDescription(repos[idx], o)
  /\ bpc' = "summarize"
  /\ UNCHANGED <<prog, feedKind, clock, repos, resp, wvars, bexit, webhook, idx, results,
                 blog, output, dataJson, feedXml, sends, pauses>>

\* what the summarization of one result came back with
Outcome(text, o) ==
  IF Summarize(text, o).request.isNull THEN "none"
  ELSE IF Summarize(text, o).err THEN "error"
  ELSE IF o.response = <<>> THEN "empty"
  ELSE "text"

\* run, lines 228-246: Summarize answers and the result is appended
RunSummarize ==
  /\ prog = "batch" /\ bpc = "summarize"
  /\ \E o \in OllamaResponses :
       /\ results' = AppendResult(results,
            TrendingRepoWithSummary(repos[idx], SummaryOrFailed(readme.text, o)))
       /\ blog' = Append(blog, [index |-> idx, absent |-> readme.absent,
                                text |-> readme.text,
                                request |-> Summarize(readme.text, o).request,
                                outcome |-> Outcome(readme.text, o)])
  /\ idx' = idx + 1
  /\ readme' = NoReadme
  /\ bpc' = "loop"
  /\ UNCHANGED <<prog, feedKind, clock, repos, resp, wvars, bexit, webhook, output,
                 dataJson, feedXml, sends, pauses>>

\* run, lines 249-253: the loop is over; the clock is read and the Output built
RunOutput ==
  /\ prog = "batch" /\ bpc = "loop" /\ idx > Len(repos)
  /\ clock' = clock + 1
  /\ output' = [items |-> results, generatedAt |-> clock + 1]
  /\ bpc' = "writeJSON"
  /\ UNCHANGED <<prog, feedKind, repos, resp, wvars, bexit, webhook, idx, readme, results,
                 blog, dataJson, feedXml, sends, pauses>>

\* os.Create: the file exists and is empty
Create(file) == [exists |-> TRUE, content |-> <<>>]

\* writeJSON, lines 388-398: MkdirAll and os.Create
WriteJSONCreate ==
  /\ prog = "batch" /\ bpc = "writeJSON"
  /\ \E o \in {"mkdir_error", "create_error", "ok"} :
       IF o = "ok"
       THEN /\ dataJson' = Create(dataJson)
            /\ bpc' = "encodeJSON"
            /\ UNCHANGED <<repos, bexit, webhook, idx, readme, results, blog,
                           output, sends, pauses>>
       ELSE /\ ReturnError("failed to write output")
            /\ UNCHANGED dataJson
  /\ UNCHANGED <<prog, feedKind, clock, resp, wvars, feedXml>>

\* a write of doc that stops after n tokens
Write(file, doc, n) == [exists |-> TRUE, content |-> file.content \o SubSeq(doc, 1, n)]

\* writeJSON, lines 400-408: encoder.Encode writes the document, all of it or, on a
\* write error, the first n tokens of it
WriteJSONEncode ==
  /\ prog = "batch" /\ bpc = "encodeJSON"
  /\ \E n \in 0..Len(EncodeJSON(output)) :
       /\ dataJson' = Write(dataJson, EncodeJSON(output), n)
       /\ IF n = Len(EncodeJSON(output))
          THEN /\ bpc' = "writeRSS"
               /\ UNCHANGED <<repos, bexit, webhook, idx, readme, results, blog,
                              output, sends, pauses>>
          ELSE ReturnError("failed to write output")
  /\ UNCHANGED <<prog, feedKind, clock, resp, wvars, feedXml>>

\* os.Create of feed.xml: the file exists and is empty
CreateFeed(file) == [exists |-> TRUE, of |-> 0, written |-> 0, complete |-> FALSE]

\* a write of the feed document of the run stamped t that stops after n tokens
WriteFeed(file, doc, t, n) ==
  IF n = 0 THEN file
  ELSE [exists |-> TRUE, of |-> t, written |-> n, complete |-> (n = Len(doc))]

\* writeRSS, lines 413-463: MkdirAll, the items, os.Create
WriteRSSCreate ==
  /\ prog = "batch" /\ bpc = "writeRSS"
  /\ \E o \in {"mkdir_error", "create_error", "ok"} :
       IF o = "ok"
       THEN /\ feedXml' = CreateFeed(feedXml)
            /\ bpc' = "encodeRSS"
            /\ UNCHANGED <<repos, bexit, webhook, idx, readme, results, blog,
                           output, sends, pauses>>
       ELSE /\ ReturnError("failed to write RSS")
            /\ UNCHANGED feedXml
  /\ UNCHANGED <<prog, feedKind, clock, resp, wvars, dataJson>>

\* writeRSS, lines 466-478: the header and the document are written, all of it or,
\* on a write error, the first n tokens of it
WriteRSSEncode ==
  /\ prog = "batch" /\ bpc = "encodeRSS"
  /\ LET doc == EncodeXML(BuildRSS(results, output.generatedAt))
     IN \E n \in 0..Len(doc) :
          /\ feedXml' = WriteFeed(feedXml, doc, output.generatedAt, n)
          /\ IF n = Len(doc)
             THEN /\ bpc' = "discord"
                  /\ webhook' \in BOOLEAN
                  /\ UNCHANGED <<repos, bexit, idx, readme, results, blog,
                                 output, sends, pauses>>
             ELSE ReturnError("failed to write RSS")
  /\ UNCHANGED <<prog, feedKind, clock, resp, wvars, dataJson>>

\* sendDiscordNotification, lines 493-503: one postDiscordWebhook; on an error the
\* loop continues, otherwise it sleeps unless the message was the last
PostDiscord ==
  /\ prog = "batch" /\ bpc = "discord" /\ webhook
  /\ LET messages == buildDiscordMessages(results, output.generatedAt)
         i == Len(sends)
     IN /\ i < Len(messages)
        /\ sends' = Append(sends, messages[i + 1])
        /\ \E o \in {"transport_error", "bad_status", "ok"} :
             bpc' = IF ~postDiscordWebhook(o) /\ i < Len(messages) - 1
                    THEN "sleep" ELSE "discord"
  /\ UNCHANGED <<prog, feedKind, clock, repos, resp, wvars, bexit, webhook, idx, readme,
                 results, blog, output, dataJson, feedXml, pauses>>

\* time.Sleep(500 * time.Millisecond)
Sleep ==
  /\ prog = "batch" /\ bpc = "sleep"
  /\ pauses' = pauses + 1
  /\ bpc' = "discord"
  /\ UNCHANGED <<prog, feedKind, clock, repos, resp, wvars, bexit, webhook, idx, readme,
                 results, blog, output, dataJson, feedXml, sends>>

\* sendDiscordNotification returns (no webhook URL, or every message was tried) and
\* run returns nil
RunReturn ==
  /\ prog = "batch" /\ bpc = "discord"
  /\ ~webhook \/ Len(sends) = Len(buildDiscordMessages(results, output.generatedAt))
  /\ bpc' = "idle"
  /\ bexit' = "ok"
  /\ UNCHANGED <<prog, feedKind, clock, repos, resp, wvars, webhook, idx, readme, results,
                 blog, output, dataJson, feedXml, sends, pauses>>

\* the process is killed in the middle of run
Terminated ==
  /\ prog = "batch" /\ bpc # "idle"
  /\ bpc' = "idle"
  /\ bexit' = "killed"
  /\ webhook' = FALSE
  /\ repos' = <<>>
  /\ Fresh
  /\ UNCHANGED <<prog, feedKind, clock, resp, wvars, dataJson, feedXml>>

Init ==
  /\ prog \in {"worker", "batch"}
  /\ clock = 0
  /\ repos = <<>>
  /\ feedKind = "none"
  /\ kv = KvEmpty
  /\ wpc = "idle"
  /\ wexit = "none"
  /\ tasks = <<>>
  /\ values = <<>>
  /\ overtaken = FALSE
  /\ wdata = NoData
  /\ resp = NoResponse
  /\ published = NoPublished
  /\ second = NoSecond
  /\ bpc = "idle"
  /\ bexit = "none"
  /\ webhook = FALSE
  /\ idx = 1
  /\ readme = <<>>
  /\ results = <<>>
  /\ blog = <<>>
  /\ output = NoData
  /\ dataJson = NoFile
  /\ feedXml = NoFeed
  /\ sends = <<>>
  /\ pauses = 0

Next ==
  \/ ScheduledFetch
  \/ TaskFetchReadme
  \/ TaskSummarize
  \/ ScheduledBuild
  \/ ScheduledPut
  \/ ScheduledTerminated
  \/ RunStart
  \/ RunFetchTrending
  \/ RunSkipInvalid
  \/ RunFetchReadme
  \/ RunSummarize
  \/ RunOutput
  \/ WriteJSONCreate
  \/ WriteJSONEncode
  \/ WriteRSSCreate
  \/ WriteRSSEncode
  \/ PostDiscord
  \/ Sleep
  \/ RunReturn
  \/ Terminated

Spec == Init /\ [][Next]_vars

\* the worker with its read path: scheduled invocations interleaved with requests
InitServe == Init /\ prog = "worker"

NextServe ==
  \/ ScheduledFetch
  \/ TaskFetchReadme
  \/ TaskSummarize
  \/ ScheduledBuild
  \/ ScheduledPut
  \/ ScheduledTerminated
  \/ GetTrending
  \/ GetFeed
  \/ ResponseSent

ServeSpec == InitServe /\ [][NextServe]_vars

\* the worker with two scheduled invocations that overlap
NextOverlap ==
  \/ ScheduledFetch
  \/ TaskFetchReadme
  \/ TaskSummarize
  \/ ScheduledBuild
  \/ ScheduledPut
  \/ ScheduledTerminated
  \/ SecondScheduledBuild
  \/ SecondScheduledPut

OverlapSpec == InitServe /\ [][NextOverlap]_vars

\* ---------------------------------------------------------------- properties
\* every field of the source item, verbatim
SameRepo(item, repo) ==
  /\ item.title = repo.title /\ item.url = repo.url
  /\ item.description = repo.description /\ item.language = repo.language
  /\ item.languageColor = repo.languageColor /\ item.stars = repo.stars
  /\ item.forks = repo.forks /\ item.addStars = repo.addStars
  /\ item.contributors = repo.contributors

\* items are feed items, each met later in the feed than the one before it
InFeedOrder(items, fd) ==
  \E f \in [1..Len(items) -> 1..Len(fd)] :
    /\ \A i, j \in 1..Len(items) : i < j => f[i] < f[j]
    /\ \A k \in 1..Len(items) : SameRepo(items[k], fd[f[k]])

WellFormed(title) == IndexOf(title, "/") # 0

\* the Snapshot a reader of the store gets: the worker's KV slot, the batch's data.json
StoredItems ==
  IF prog = "worker"
  THEN (IF kv.present /\ IsCompleteJSON(kv.value) THEN ParseJSON(kv.value).items ELSE <<>>)
  ELSE (IF dataJson.exists /\ IsCompleteJSON(dataJson.content)
        THEN ParseJSON(dataJson.content).items ELSE <<>>)

\* the items of the Snapshot the current run has produced so far
ProducedItems == IF prog = "worker" THEN wdata.items ELSE results

\* the last run went through and its Snapshot is the stored one
RunPublished == IF prog = "worker" THEN wexit = "ok" ELSE bexit = "ok"

\* C1: in both pipelines, whatever the order in which the per-item fetches and
\* summarizations complete, the items of the produced Snapshot (and of the Snapshot
\* the run stores) are in the relative order of the trending feed of that run.
C1_OrderPreserved ==
  /\ InFeedOrder(ProducedItems, repos)
  /\ prog = "batch" => InFeedOrder(output.items, repos)
  /\ RunPublished => InFeedOrder(StoredItems, repos)

\* a Snapshot of two items built by the worker after the second callback settled
\* before the first
C1_Witness ==
  /\ prog = "worker" /\ wpc = "put" /\ overtaken
  /\ Len(wdata.items) >= 2
  /\ wdata.items[1].title # wdata.items[2].title

\* C2: the summary of every item of every Snapshot, produced or stored, is a
\* non-empty string.
C2_SummaryNeverEmpty ==
  /\ \A k \in 1..Len(ProducedItems) : ProducedItems[k].summary # <<>>
  /\ \A k \in 1..Len(StoredItems) : StoredItems[k].summary # <<>>

\* C3: an item whose identifier has no '/' is in no enriched output, in either
\* pipeline, and a finished run holds every well-formed item of its feed.
C3_MalformedOmitted ==
  /\ \A k \in 1..Len(ProducedItems) : WellFormed(ProducedItems[k].title)
  /\ \A k \in 1..Len(StoredItems) : WellFormed(StoredItems[k].title)
  /\ RunPublished =>
       \A i \in 1..Len(repos) :
         WellFormed(repos[i].title) =>
           \E k \in 1..Len(StoredItems) : SameRepo(StoredItems[k], repos[i])

\* C4: at every point of every run a reader of the Snapshot store finds no Snapshot or
\* one whole Snapshot, never an empty or truncated document.
C4_CompleteOrNone ==
  /\ kv.present => IsCompleteJSON(kv.value)
  /\ dataJson.exists => IsCompleteJSON(dataJson.content)

\* C5: when the trending feed answers with a transport error, a non-success status or
\* a payload without the items list, the fetch reports an error and the run is over,
\* failed, with nothing written.
C5_FeedFailureAborts ==
  feedKind \in {"transport_error", "bad_status", "no_items"} =>
    /\ prog = "worker" => wpc = "idle" /\ wexit = "fetchTrending threw"
    /\ prog = "batch" => bpc = "idle" /\ bexit = "failed to fetch trending repos"

C7_DescriptionFallback ==
  /\ \A i \in 1..Len(tasks) :
       tasks[i].pc = "done" /\ tasks[i].readme.isNull =>
         tasks[i].request = Some(repos[i].description)
  /\ \A k \in 1..Len(blog) :
       blog[k].absent => blog[k].text = repos[blog[k].index].description

\* C8: in both pipelines, when the documentation is absent and the description is the
\* empty string, no request goes to the summarization backend and the summary is
\* "説明なし".
C8_EmptyTextPlaceholder ==
  /\ \A i \in 1..Len(tasks) :
       tasks[i].pc = "done" /\ tasks[i].readme.isNull /\ repos[i].description = <<>> =>
         tasks[i].request.isNull /\ tasks[i].summary = SetsumeiNashi
  /\ \A k \in 1..Len(blog) :
       blog[k].absent /\ repos[blog[k].index].description = <<>> =>
         blog[k].request.isNull /\ results[k].summary = SetsumeiNashi

Placeholders == {YoyakuShippai, SetsumeiNashi}

\* the errors run can return
RunErrors ==
  {"OLLAMA_MODEL is not set", "failed to fetch trending repos",
   "failed to write output", "failed to write RSS"}

\* C9 as claimed: every well-formed item whose documentation fetch or summarization
\* failed is in the Snapshot with a placeholder summary.
C9_FailedItemsHavePlaceholder ==
  /\ prog = "worker" /\ wpc = "put" =>
       \A i \in 1..Len(tasks) :
         (tasks[i].readme.isNull \/ tasks[i].failed) /\ WellFormed(repos[i].title) =>
           /\ SameRepo(wdata.items[i], repos[i])
           /\ wdata.items[i].summary \in Placeholders
  /\ \A k \in 1..Len(blog) :
       blog[k].absent \/ blog[k].outcome \in {"error", "empty"} =>
         /\ SameRepo(results[k], repos[blog[k].index])
         /\ results[k].summary \in Placeholders

\* C9 amended: no failure of a documentation fetch or of a summarization ends the run;
\* every item is enriched from its own fetch and summarization alone; an item whose
\* summarization failed has the summary "要約失敗"; an item whose documentation fetch
\* failed has "要約失敗" in the worker and, in the batch program, what Summarize gives
\* for its description ("説明なし" when the description is empty).
C9_FailuresAreContained ==
  /\ prog = "worker" /\ wpc = "put" =>
       /\ Len(wdata.items) = Len(repos)
       /\ \A i \in 1..Len(repos) :
            /\ wdata.items[i] = WithSummary(repos[i], tasks[i].summary)
            /\ tasks[i].readme.isNull \/ tasks[i].failed =>
                 wdata.items[i].summary = YoyakuShippai
  /\ prog = "worker" => wexit \in {"none", "running", "ok", "terminated",
                                   "fetchTrending threw", "put threw"}
  /\ prog = "batch" =>
       /\ bexit \in {"none", "running", "ok", "killed"} \cup RunErrors
       /\ Len(blog) = Len(results)
       /\ {blog[k].index : k \in 1..Len(blog)}
            = {i \in 1..Len(repos) :
                 (i < idx \/ bexit = "ok") /\ WellFormed(repos[i].title)}
       /\ \A k \in 1..Len(blog) :
            /\ SameRepo(results[k], repos[blog[k].index])
            /\ blog[k].outcome \in {"error", "empty"} =>
                 results[k].summary = YoyakuShippai
            /\ blog[k].absent => blog[k].text = repos[blog[k].index].description
            /\ blog[k].text = <<>> =>
                 blog[k].outcome = "none" /\ results[k].summary = SetsumeiNashi
       /\ bpc \in {"writeRSS", "encodeRSS", "discord", "sleep"} \/ bexit = "ok" =>
            /\ output.items = results
            /\ dataJson.content = EncodeJSON(output)

\* the batch program published a Snapshot of two items: the summarization of the first
\* failed, the second, whose documentation was there, has the backend's summary
C9_Witness ==
  /\ prog = "batch" /\ bpc = "discord"
  /\ Len(results) = 2
  /\ blog[1].outcome = "error" /\ results[1].summary = YoyakuShippai
  /\ ~blog[2].absent /\ blog[2].outcome = "text"
  /\ results[2].summary = <<"s">>
  /\ dataJson.content = EncodeJSON(output)

\* C10: with a webhook URL, sendDiscordNotification tries one message per item of the
\* Snapshot, in Snapshot order, each with the one embed of its item, and a run that
\* returns has tried all of them, whichever sends failed; no send error is an error of
\* run; without a webhook URL nothing is sent.
C10_OneSendPerItem ==
  prog = "batch" =>
    /\ Len(sends) <= Len(results)
    /\ \A k \in 1..Len(sends) :
         /\ Len(sends[k].Embeds) = 1
         /\ sends[k].Embeds[1].Title = results[k].title
         /\ sends[k].Embeds[1].URL = results[k].url
         /\ sends[k].Embeds[1].Description = results[k].summary
    /\ ~webhook => sends = <<>>
    /\ bexit = "ok" => Len(sends) = (IF webhook THEN Len(results) ELSE 0)
    /\ sends # <<>> => bexit \in {"running", "ok", "killed"}

\* a run that returned nil after two sends of which the first failed (no pause taken)
C10_Witness ==
  /\ prog = "batch" /\ bexit = "ok" /\ webhook
  /\ Len(sends) = 2 /\ pauses = 0

\* C11: in the batch program a failure of writeRSS after data.json was written is
\* logged only: run never returns the error "failed to write RSS", it goes on to the
\* webhook notifications and returns nil.
C11_FeedFailureLoggedOnly ==
  prog = "batch" => bexit # "failed to write RSS"

\* C12: between every two consecutive webhook send attempts a pause was taken: after
\* k attempts, at least k - 1 pauses, whether the sends succeeded or failed.
C12_PauseBetweenSends ==
  prog = "batch" /\ sends # <<>> => pauses >= Len(sends) - 1

\* "#RRGGBB" or "RRGGBB": six hex digits
IsHexColor(htmlColor) ==
  LET color == TrimPrefixHash(htmlColor)
  IN Len(color) = 6 /\ \A k \in 1..6 : HexValue(color[k]) >= 0

\* the color the embed of a language display color is to carry; 7506394 is 0x7289DA
ColorOrFallback(htmlColor) ==
  IF htmlColor = <<>> \/ ~IsHexColor(htmlColor) THEN 7506394
  ELSE ScanHex(TrimPrefixHash(htmlColor), 0)

\* C13: every embed sent carries the parsed RRGGBB value of its item's language display
\* color, or the fallback 0x7289DA when that string is empty or is no hex color.
C13_ColorParsedOrFallback ==
  \A k \in 1..Len(sends) :
    \A e \in 1..Len(sends[k].Embeds) :
      \E i \in 1..Len(results) :
        /\ results[i].title = sends[k].Embeds[e].Title
        /\ sends[k].Embeds[e].Color = ColorOrFallback(results[i].languageColor)

\* C14: whatever the interleaving of overlapping scheduled invocations, the KV slot
\* holds the items and generatedAt of one invocation, and once every invocation has
\* finished it holds the Snapshot with the greatest generatedAt of those that were put.
C14_SlotHoldsNewest ==
  prog = "worker" /\ kv.present =>
    /\ IsCompleteJSON(kv.value)
    /\ ParseJSON(kv.value) = published.data
    /\ wpc = "idle" /\ second.pc = "idle" =>
         ParseJSON(kv.value).generatedAt = published.newest
====
